---- MODULE Spec2Model ----
(***************************************************************************)
(* Model of the transform engine `Fourier<FftPolicy>` of src/fourier.hpp.  *)
(*                                                                         *)
(* Numbers.  The engine works on doubles.  The model is exact on the       *)
(* working sizes 1, 2 and 4, where every rotation factor is one of         *)
(* 1, i, -1, -i: a complex value is a pair <<re, im>> of integers counting *)
(* units of 1/Unit, a real sample is an integer.  Rounding of the doubles  *)
(* (cos(pi/2) is 6.1e-17 in the build, not 0) is outside the model.        *)
(***************************************************************************)
EXTENDS Integers, Sequences, FiniteSets

(* ------------------------------ bounds -------------------------------- *)

\* Lengths requested at construction (working sizes 1, 2, 4).
Lengths == {1, 2, 3, 4}

\* Sample values a caller passes.
SampleVals == {-1, 0, 1}

\* What a read past the end of the caller's buffer may find in memory.
GarbageVals == {0, 1}

\* A call passes at most size_ + MaxOver samples.
MaxOver == 1

\* Cap on the buffer entries the copy loops write over an engine's lifetime: a
\* transform is taken only while its size_ entries still fit.
MaxLoaded == 4

(* --------------------------- the policy ------------------------------- *)

RECURSIVE NextPow2(_, _)
NextPow2(p, len) == IF p >= len THEN p ELSE NextPow2(2 * p, len)

\* FftPolicy::calc_size: the working size for a requested length.
calc_size(len) == NextPow2(1, len)

\* Denominator of the fixed-point complex values: every working size divides it.
Unit == calc_size(4)

(* ------------------------- complex arithmetic ------------------------- *)

Complex(re, im) == <<re, im>>
Re(z) == z[1]
Im(z) == z[2]
CZero == Complex(0, 0)

\* std::complex operator+=
CAdd(a, b) == Complex(Re(a) + Re(b), Im(a) + Im(b))

\* std::complex<double> * double
CScale(z, x) == Complex(Re(z) * x, Im(z) * x)

\* std::complex<double> * std::complex<double>
CMul(a, b) == Complex((Re(a) * Re(b) - Im(a) * Im(b)) \div Unit,
                      (Re(a) * Im(b) + Im(a) * Re(b)) \div Unit)

\* std::complex operator/ : (a+bi)/(c+di) = ((ac+bd) + (bc-ad)i) / (cc+dd)
CDiv(a, b) ==
    LET den == Re(b) * Re(b) + Im(b) * Im(b)
    IN  Complex(((Re(a) * Re(b) + Im(a) * Im(b)) * Unit) \div den,
                ((Im(a) * Re(b) - Re(a) * Im(b)) * Unit) \div den)

\* Quarter turns of the angle 2*pi*m/n, for n dividing 4.
Quarter(m, n) == ((m % n) * 4) \div n

\* std::cos(2*pi/n * m) and std::sin(2*pi/n * m), in units of 1/Unit.
Cos(m, n) == <<Unit, 0, -Unit, 0>>[Quarter(m, n) + 1]
Sin(m, n) == <<0, Unit, 0, -Unit>>[Quarter(m, n) + 1]

\* The double 1.0 / n.
Recip(n) == Unit \div n

(* ------------------------------ state --------------------------------- *)

VARIABLES
    size_,        \* size_t size_
    rotors_,      \* std::vector<Rotor> rotors_
    fouriers_,    \* std::vector<FourierCoef> fouriers_
    data_,        \* std::vector<double> data_
    requested,    \* the length passed to the constructor
    call,         \* the latest operation and its arguments
    result,       \* what the latest operation returned
    reads,        \* indices of the caller's buffer the latest transform read
    transformed,  \* some dft or fft call has returned true
    loaded,       \* buffer entries written by completed copy loops so far
    crashed       \* a read outside the caller's buffer faulted

vars == <<size_, rotors_, fouriers_, data_, requested, call, result, reads,
          transformed, loaded, crashed>>

engine == <<size_, rotors_, fouriers_, data_>>

(* --------------------------- construction ----------------------------- *)

\* calc_rotors with the sign of the sine flipped (exp(-j*2*pi*k/N)).
calc_rotors_conjugate(n) ==
    [k \in 1..n |-> Complex(Cos(k - 1, n), -Sin(k - 1, n))]

\* Fourier::calc_rotors: rotors_[k] = cos(2*pi*k/N) + j*sin(2*pi*k/N).
calc_rotors(n) == [k \in 1..n |-> Complex(Cos(k - 1, n), Sin(k - 1, n))]

\* Fourier::Fourier(size): fouriers_ and data_ are default-constructed, empty.
Fourier(len) ==
    /\ size_ = calc_size(len)
    /\ rotors_ = calc_rotors(calc_size(len))
    /\ fouriers_ = <<>>
    /\ data_ = <<>>
    /\ requested = len
    /\ call = [op |-> "Fourier", data |-> <<>>, size |-> len]
    /\ result = "none"
    /\ reads = {}
    /\ transformed = FALSE
    /\ loaded = 0
    /\ crashed = FALSE

Init == \E len \in Lengths : Fourier(len)

(* ----------------------------- accessors ------------------------------ *)

\* The value std::abs(z), held as its square (in units of 1/Unit^2).
Abs(z) == [sq |-> Re(z) * Re(z) + Im(z) * Im(z)]

\* value *= value, on a value std::abs returned.
Square(a) == a.sq

RECURSIVE Gcd(_, _)
Gcd(a, b) == IF b = 0 THEN a ELSE Gcd(b, a % b)

Magn(x) == IF x < 0 THEN -x ELSE x

\* The angle std::arg(z) in (-pi, pi], held as the direction of z reduced to
\* lowest terms; std::arg(0) is 0, the angle of the positive real axis.
Arg(z) ==
    IF z = CZero THEN <<1, 0>>
    ELSE LET g == Gcd(Magn(Re(z)), Magn(Im(z)))
         IN  <<Re(z) \div g, Im(z) \div g>>

rotors == rotors_
size == size_
fourier_coef == fouriers_
\* amplifiers sized by the working size instead of by the coefficients.
amplifiers_sized ==
    [k \in 1..size_ |-> IF k <= Len(fouriers_) THEN Abs(fouriers_[k]) ELSE Abs(CZero)]

amplifiers == [k \in 1..Len(fouriers_) |-> Abs(fouriers_[k])]
power_spectrums == [k \in 1..Len(amplifiers) |-> Square(amplifiers[k])]
angles == [k \in 1..Len(fouriers_) |-> Arg(fouriers_[k])]

\* An accessor returns a copy and writes nothing.
Returns(op, value) ==
    /\ ~crashed
    /\ call' = [op |-> op, data |-> <<>>, size |-> 0]
    /\ result' = value
    /\ reads' = {}
    /\ UNCHANGED <<engine, requested, transformed, loaded, crashed>>

get_rotors == Returns("rotors", rotors)
get_size == Returns("size", size)
get_fourier_coef == Returns("fourier_coef", fourier_coef)
get_amplifiers == Returns("amplifiers", amplifiers)
get_power_spectrums == Returns("power_spectrums", power_spectrums)
get_angles == Returns("angles", angles)

(* ---------------------------- the buffer ------------------------------ *)

\* data[i] as the copy loop reads it: the caller's sample for i < size, and
\* whatever lies in memory behind the caller's buffer for i >= size (`beyond` is
\* the readable memory there; a read past it faults).
Fetch(data, beyond, i) ==
    IF i < Len(data) THEN data[i + 1] ELSE beyond[i - Len(data) + 1]

\* data_.resize(size_); std::fill(.., 0); for (i < limit) data_[i] = data[i];
Load(data, beyond, limit) ==
    [i \in 1..size_ |-> IF i - 1 < limit THEN Fetch(data, beyond, i - 1) ELSE 0]

\* The bound of the copy loop.
CopyLimit(count) == size_

\* std::vector::resize(n) on a vector of complex values.
Resize(v, n) == [k \in 1..n |-> IF k <= Len(v) THEN v[k] ELSE CZero]

(* ------------------------------- dft ---------------------------------- *)

\* mtx_rotors[k * size_ + n] = cos(2*pi*k*n/N) + j*sin(2*pi*k*n/N)
mtx_rotors(n) ==
    [idx \in 0..(n * n - 1) |->
        Complex(Cos((idx \div n) * (idx % n), n), Sin((idx \div n) * (idx % n), n))]

\* for (n < upto) acc += mtx_rotors[k * size_ + n] * data_.at(n), from acc = start
RECURSIVE Accumulate(_, _, _, _, _)
Accumulate(start, mtx, buf, k, upto) ==
    IF upto = 0 THEN start
    ELSE CAdd(Accumulate(start, mtx, buf, k, upto - 1),
              CScale(mtx[k * Len(buf) + (upto - 1)], buf[upto]))

\* value = value / std::complex<double>(1.0 / size_, 0.0)
Normalize(value, n) == CDiv(value, Complex(Recip(n), 0))

\* fouriers_.resize(size_) and the two loops over it.
Transform(prior, buf) ==
    LET n == Len(buf)
        kept == Resize(prior, n)
        mtx == mtx_rotors(n)
    IN  [k \in 1..n |-> Normalize(Accumulate(kept[k], mtx, buf, k - 1, n), n)]

\* The size check with >= for >.
TooLarge_inclusive(count) == count >= size_

\* if (size > size_)
TooLarge(count) == count > size_

\* The size check placed after the buffer has been resized and zero-filled.
Rejected_after_fill(op, data) ==
    /\ call' = [op |-> op, data |-> data, size |-> Len(data)]
    /\ result' = FALSE
    /\ reads' = {}
    /\ data_' = [i \in 1..size_ |-> 0]
    /\ UNCHANGED <<size_, rotors_, fouriers_, requested, transformed, loaded, crashed>>

\* return false;
Rejected(op, data) ==
    /\ call' = [op |-> op, data |-> data, size |-> Len(data)]
    /\ result' = FALSE
    /\ reads' = {}
    /\ UNCHANGED <<engine, requested, transformed, loaded, crashed>>

\* The copy loop reads data[i] for i >= size where no readable memory lies:
\* the read faults and the process ends with the call. Nothing of the engine
\* is observable afterwards; its variables keep their values.
Faulted(op, data, beyond) ==
    /\ Len(data) + Len(beyond) < CopyLimit(Len(data))
    /\ call' = [op |-> op, data |-> data, size |-> Len(data)]
    /\ result' = "none"
    /\ reads' = 0..(Len(data) + Len(beyond))
    /\ crashed' = TRUE
    /\ UNCHANGED <<engine, requested, transformed, loaded>>

\* The copy loop completes (a read outside the caller's buffer finds the value
\* `beyond` holds there) and the call returns true.
Loaded(op, data, beyond) ==
    /\ Len(data) + Len(beyond) >= CopyLimit(Len(data))
    /\ loaded + size_ <= MaxLoaded
    /\ data_' = Load(data, beyond, CopyLimit(Len(data)))
    /\ reads' = 0..(CopyLimit(Len(data)) - 1)
    /\ loaded' = loaded + size_
    /\ call' = [op |-> op, data |-> data, size |-> Len(data)]
    /\ result' = TRUE
    /\ transformed' = TRUE
    /\ UNCHANGED <<size_, rotors_, requested, crashed>>

dft(data, beyond) ==
    /\ ~crashed
    /\ IF TooLarge(Len(data))
       THEN Rejected("dft", data)
       ELSE \/ /\ Loaded("dft", data, beyond)
               /\ fouriers_' = Transform(fouriers_, data_')
            \/ Faulted("dft", data, beyond)

(* ------------------------------- fft ---------------------------------- *)

\* FftPolicy::fft(data, rotors): the normalized discrete transform of the padded
\* buffer, coefficient[k] = (1/N) * sum over n of data[n] * rotors[(k*n) mod N].
RECURSIVE PolicySum(_, _, _, _)
PolicySum(buf, table, k, upto) ==
    IF upto = 0 THEN CZero
    ELSE CAdd(PolicySum(buf, table, k, upto - 1),
              CScale(table[((k * (upto - 1)) % Len(table)) + 1], buf[upto]))

policy_fft(buf, table) ==
    [k \in 1..Len(buf) |->
        CMul(PolicySum(buf, table, k - 1, Len(buf)), Complex(Recip(Len(buf)), 0))]

fft(data, beyond) ==
    /\ ~crashed
    /\ IF TooLarge(Len(data))
       THEN Rejected("fft", data)
       ELSE \/ /\ Loaded("fft", data, beyond)
               /\ fouriers_' = policy_fft(data_', rotors_)
            \/ Faulted("fft", data, beyond)

(* --------------------------- specification ---------------------------- *)

\* The buffers a caller passes: any samples up to the working size, and a
\* constant buffer when it passes more.
Buffers ==
    UNION {[1..c -> SampleVals] : c \in 0..size_}
    \cup {[i \in 1..c |-> v] : c \in (size_ + 1)..(size_ + MaxOver), v \in SampleVals}

\* The readable memory behind a buffer, as far as the working size goes.
Beyond(data) ==
    IF Len(data) >= size_ THEN {<<>>}
    ELSE UNION {[1..m -> GarbageVals] : m \in 0..(size_ - Len(data))}

Next ==
    \/ \E data \in Buffers : \E beyond \in Beyond(data) : dft(data, beyond)
    \/ \E data \in Buffers : \E beyond \in Beyond(data) : fft(data, beyond)
    \/ get_rotors
    \/ get_size
    \/ get_fourier_coef
    \/ get_amplifiers
    \/ get_power_spectrums
    \/ get_angles

Spec == Init /\ [][Next]_vars

(* ------------------------------ claims -------------------------------- *)

Transforms == {"dft", "fft"}

\* The latest operation was a transform call that returned true.
Succeeded(op) == call.op = op /\ ~crashed /\ result = TRUE

\* The latest operation was a dft that returned true, the only transform this
\* engine has run since construction.
FreshDft == Succeeded("dft") /\ loaded = size_

\* samples ++ zeros(N - count)
Padded(samples) ==
    [i \in 1..size_ |-> IF i <= Len(samples) THEN samples[i] ELSE 0]

\* sum over n in 0..upto-1 of buf[n] * (cos(2*pi*k*n/N) + i*sin(2*pi*k*n/N))
RECURSIVE DirectSum(_, _, _)
DirectSum(buf, k, upto) ==
    IF upto = 0 THEN CZero
    ELSE CAdd(DirectSum(buf, k, upto - 1),
              Complex(Cos(k * (upto - 1), Len(buf)) * buf[upto],
                      Sin(k * (upto - 1), Len(buf)) * buf[upto]))

\* C1: after a successful dft on a freshly constructed engine the coefficient
\* sequence has N entries and coefficient[k] is the raw sum over the buffer
\* divided by N, i.e. N * coefficient[k] equals the raw sum.
C1_DftDividesByN ==
    FreshDft =>
        /\ Len(fourier_coef) = size_
        /\ \A k \in 1..size_ :
               CScale(fourier_coef[k], size_) = DirectSum(data_, k - 1, size_)

\* C2: after any sequence of successful transform calls, the coefficients are
\* those the last call alone produces on a freshly constructed engine of the
\* same size (reading the same memory).
C2_LastCallDecides ==
    /\ Succeeded("dft") => fourier_coef = Transform(<<>>, data_)
    /\ Succeeded("fft") => fourier_coef = policy_fft(data_, calc_rotors(size_))

\* C3: dft(S, count) with count < N on a fresh engine leaves the coefficients
\* that dft(S ++ zeros(N - count), N) leaves on a fresh engine of the same size.
C3_ZeroPadding ==
    FreshDft /\ call.size < size_ =>
        fourier_coef = Transform(<<>>, Padded(call.data))

\* C4: a successful dft or fft reads the caller's samples at indices below
\* count only, and leaves the working buffer equal to the samples followed by
\* zeros up to length N.
C4_ReadsWithinCount ==
    Succeeded("dft") \/ Succeeded("fft") =>
        /\ reads \subseteq 0..(call.size - 1)
        /\ Len(data_) = size_
        /\ data_ = Padded(call.data)

C6_EmptyBeforeTransform ==
    ~transformed =>
        /\ fourier_coef = <<>>
        /\ amplifiers = <<>>
        /\ angles = <<>>
        /\ power_spectrums = <<>>
        /\ (call.op \in {"fourier_coef", "amplifiers", "angles", "power_spectrums"}
               => result = <<>>)

\* C6 witness: power_spectrums() was called on an engine that has not transformed.
C6_Witness == ~transformed /\ ~crashed /\ call.op = "power_spectrums"

\* C7: dft(samples, count) leaves the coefficients that fft(samples, count)
\* leaves on an engine of the same size, the provider's fft returning the
\* normalized transform of the padded buffer.
C7_CrossPath ==
    Succeeded("dft") => fourier_coef = policy_fft(data_, rotors)

\* C8: on an engine of working size 4, dft of [1, 0, -1, 0] yields coefficients
\* with real parts [0, 1, 0, 1] and imaginary parts 0, amplifiers() [0, 1, 0, 1]
\* and power_spectrums() [0, 1, 0, 1].
C8_Scenario ==
    FreshDft /\ size_ = 4 /\ call.data = <<1, 0, -1, 0>> =>
        /\ fourier_coef = <<Complex(0, 0), Complex(Unit, 0),
                            Complex(0, 0), Complex(Unit, 0)>>
        /\ amplifiers = <<[sq |-> 0], [sq |-> Unit * Unit],
                          [sq |-> 0], [sq |-> Unit * Unit]>>
        /\ power_spectrums = <<0, Unit * Unit, 0, Unit * Unit>>

\* The rotation factors cos(2*pi*k/N) + i*sin(2*pi*k/N), k in 0..N-1, written out.
UnitCircle(n) ==
    CASE n = 1 -> <<Complex(Unit, 0)>>
      [] n = 2 -> <<Complex(Unit, 0), Complex(-Unit, 0)>>
      [] n = 4 -> <<Complex(Unit, 0), Complex(0, Unit),
                    Complex(-Unit, 0), Complex(0, -Unit)>>

C10_RejectedChangesNothing ==
    [][call'.op \in Transforms /\ ~crashed' /\ result' = FALSE =>
          /\ fouriers_' = fouriers_
          /\ data_' = data_
          /\ rotors_' = rotors_
          /\ size_' = size_
          /\ fourier_coef' = fourier_coef
          /\ amplifiers' = amplifiers
          /\ angles' = angles
          /\ power_spectrums' = power_spectrums]_vars

\* C10 witness: a call was rejected on an engine holding a buffer and coefficients.
C10_Witness ==
    /\ call.op = "dft" /\ ~crashed /\ result = FALSE
    /\ fouriers_ # <<>> /\ data_ # <<>>

====
